---- MODULE Spec2Model ----
(***************************************************************************)
(* Model of the product recommender: the catalog store (database.py), the  *)
(* external-AI-backed intent parser and explanation generator              *)
(* (ai_service.py), the scoring engine and orchestrator                    *)
(* (recommendation_engine.py), the response models (models.py) and the     *)
(* three lazily initialised process-wide singletons.                       *)
(*                                                                         *)
(* Text is modelled by TLA+ strings; a character is a string of length 1.  *)
(* Floats do not exist in TLA+: generator scores are integers.             *)
(***************************************************************************)
EXTENDS Integers, Sequences, FiniteSets, TLC

\* ------------------------------------------------------------------------
\* Python string primitives
\* ------------------------------------------------------------------------

UpperChars == "ABCDEFGHIJKLMNOPQRSTUVWXYZ"
LowerChars == "abcdefghijklmnopqrstuvwxyz"
DigitChars == "0123456789"

CharAt(s, i) == SubSeq(s, i, i)

\* position (1-based) of character c in alphabet, 0 when absent
IndexIn(c, alphabet) ==
    IF \E i \in 1..Len(alphabet) : CharAt(alphabet, i) = c
    THEN CHOOSE i \in 1..Len(alphabet) : CharAt(alphabet, i) = c
    ELSE 0

LowerChar(c) ==
    IF IndexIn(c, UpperChars) = 0 THEN c ELSE CharAt(LowerChars, IndexIn(c, UpperChars))

RECURSIVE ConcatRange(_, _, _)
\* parts[lo] \o ... \o parts[hi], by halves
ConcatRange(parts, lo, hi) ==
    IF lo > hi THEN ""
    ELSE IF lo = hi THEN parts[lo]
    ELSE ConcatRange(parts, lo, (lo + hi) \div 2) \o ConcatRange(parts, (lo + hi) \div 2 + 1, hi)

\* str.lower()
Lower(s) ==
    LET chars == [i \in 1..Len(s) |-> LowerChar(CharAt(s, i))] IN ConcatRange(chars, 1, Len(s))

\* needle in haystack
Contains(needle, haystack) ==
    \E i \in 0..(Len(haystack) - Len(needle)) :
        SubSeq(haystack, i + 1, i + Len(needle)) = needle

\* s.startswith(prefix)
StartsWith(s, prefix) ==
    Len(s) >= Len(prefix) /\ SubSeq(s, 1, Len(prefix)) = prefix

IsDigit(c) == IndexIn(c, DigitChars) # 0
IsAlnumLower(c) == IndexIn(c, LowerChars) # 0 \/ IsDigit(c)

SpaceChars == {" ", "\n", "\t"}

\* index of the first character of s outside chars, Len(s) + 1 when none
FirstNotIn(s, chars) ==
    IF \A i \in 1..Len(s) : CharAt(s, i) \in chars THEN Len(s) + 1
    ELSE CHOOSE i \in 1..Len(s) :
            /\ CharAt(s, i) \notin chars
            /\ \A j \in 1..(i - 1) : CharAt(s, j) \in chars

\* index of the last character of s outside chars, 0 when none
LastNotIn(s, chars) ==
    IF \A i \in 1..Len(s) : CharAt(s, i) \in chars THEN 0
    ELSE CHOOSE i \in 1..Len(s) :
            /\ CharAt(s, i) \notin chars
            /\ \A j \in (i + 1)..Len(s) : CharAt(s, j) \in chars

\* index of the first character of s in chars, Len(s) + 1 when none
FirstIn(s, chars) ==
    IF \A i \in 1..Len(s) : CharAt(s, i) \notin chars THEN Len(s) + 1
    ELSE CHOOSE i \in 1..Len(s) :
            /\ CharAt(s, i) \in chars
            /\ \A j \in 1..(i - 1) : CharAt(s, j) \notin chars

LStrip(s) == SubSeq(s, FirstNotIn(s, SpaceChars), Len(s))
RStrip(s) == SubSeq(s, 1, LastNotIn(s, SpaceChars))

\* str.strip()
Strip(s) == RStrip(LStrip(s))

\* the leading run of non-whitespace characters
TakeWord(s) == SubSeq(s, 1, FirstIn(s, SpaceChars) - 1)

RECURSIVE SplitWs(_)
\* str.split(): the whitespace-delimited tokens, in order
SplitWs(s) ==
    LET t == LStrip(s) IN
    IF Len(t) = 0 THEN <<>>
    ELSE LET w == TakeWord(t) IN <<w>> \o SplitWs(SubSeq(t, Len(w) + 1, Len(t)))

RECURSIVE JoinWith(_, _)
\* sep.join(parts)
JoinWith(sep, parts) ==
    IF Len(parts) = 0 THEN ""
    ELSE IF Len(parts) = 1 THEN parts[1]
    ELSE parts[1] \o sep \o JoinWith(sep, Tail(parts))

\* 1-based index of the first occurrence of needle in s, 0 when absent
FindFirst(needle, s) ==
    IF Contains(needle, s)
    THEN CHOOSE i \in 1..(Len(s) - Len(needle) + 1) :
            /\ SubSeq(s, i, i + Len(needle) - 1) = needle
            /\ \A j \in 1..(i - 1) : SubSeq(s, j, j + Len(needle) - 1) # needle
    ELSE 0

RECURSIVE ParseInt(_)
\* int(digits)
ParseInt(d) ==
    IF Len(d) = 0 THEN 0
    ELSE 10 * ParseInt(SubSeq(d, 1, Len(d) - 1)) + (IndexIn(CharAt(d, Len(d)), DigitChars) - 1)

\* lst[:n]
Take(lst, n) == IF Len(lst) <= n THEN lst ELSE SubSeq(lst, 1, n)

Min(a, b) == IF a <= b THEN a ELSE b
Abs(a) == IF a < 0 THEN 0 - a ELSE a

\* ------------------------------------------------------------------------
\* JSON values (what json.loads returns) and Python dict access
\* ------------------------------------------------------------------------

JNull == [t |-> "null"]
JStr(s) == [t |-> "str", v |-> s]
JNum(n) == [t |-> "num", v |-> n]
JArr(a) == [t |-> "arr", v |-> a]
JObj(f) == [t |-> "obj", f |-> f]

IsObj(j) == j.t = "obj"
HasKey(j, k) == k \in DOMAIN j.f

\* dict.get(k, default)
DictGet(j, k, default) == IF HasKey(j, k) THEN j.f[k] ELSE default

\* ------------------------------------------------------------------------
\* Text returned by the external reasoning service.
\* A content is pre \o (the serialisation of doc) \o post, where doc is a
\* JSON value or NoDoc (then post = "").  pre and post hold whitespace,
\* prose, code fences and language tags: text that is not JSON by itself.
\* The three-backquote code fence is written "~~~" (a backquote cannot
\* occur in a TLA+ string).  NoContent is message.content = None.
\* ------------------------------------------------------------------------

Fence == "~~~"
NoDoc == [t |-> "nodoc"]
NoContent == [t |-> "none"]
Text(pre, doc, post) == [t |-> "text", pre |-> pre, doc |-> doc, post |-> post]

\* content.strip()
StripContent(c) ==
    IF c.doc = NoDoc THEN Text(Strip(c.pre), NoDoc, "")
    ELSE Text(LStrip(c.pre), c.doc, RStrip(c.post))

\* content.startswith(prefix), prefix being non-JSON text
ContentStartsWith(c, prefix) == StartsWith(c.pre, prefix)

\* content[n:], for n within pre
DropPrefix(c, n) == Text(SubSeq(c.pre, n + 1, Len(c.pre)), c.doc, c.post)

\* content.split(fence)[1], for a content that starts with the fence:
\* the text between the first fence and the next one (or the end)
SplitFenceSecond(c) ==
    LET rest == DropPrefix(c, Len(Fence)) IN
    IF Contains(Fence, rest.pre)
    THEN Text(SubSeq(rest.pre, 1, FindFirst(Fence, rest.pre) - 1), NoDoc, "")
    ELSE IF rest.doc # NoDoc /\ Contains(Fence, rest.post)
    THEN Text(rest.pre, rest.doc, SubSeq(rest.post, 1, FindFirst(Fence, rest.post) - 1))
    ELSE rest

\* the markdown clean-up shared by parse_query and generate_recommendations
CleanContent(content) ==
    LET c0 == StripContent(content)
        c1 == IF ContentStartsWith(c0, Fence)
              THEN LET seg == SplitFenceSecond(c0) IN
                   IF ContentStartsWith(seg, "json") THEN DropPrefix(seg, 4) ELSE seg
              ELSE c0
    IN StripContent(c1)

\* json.loads(content) succeeds exactly when the text is one JSON document
JsonDecodes(c) == c.doc # NoDoc /\ c.pre = "" /\ c.post = ""
JsonLoads(c) == c.doc

\* ------------------------------------------------------------------------
\* models.py
\* ------------------------------------------------------------------------

ProductCategory ==
    {"tv", "refrigerator", "washing_machine", "dryer", "ac", "soundbar", "projector",
     "dishwasher"}

\* Optional[T]: None, or a value
None == [some |-> FALSE]
Some(v) == [some |-> TRUE, v |-> v]

\* ParsedQuery(): every optional field None, both lists empty
EmptyParsedQuery ==
    [category |-> None, use_case |-> None, room_size |-> None, family_size |-> None,
     capacity |-> None, size_preference |-> None,
     must_have_features |-> <<>>, keywords |-> <<>>]

IsDigits(s) == Len(s) > 0 /\ \A i \in 1..Len(s) : IsDigit(CharAt(s, i))

\* pydantic validation of one Optional[str] field of a JSON object
OptStrValid(j, k) == ~HasKey(j, k) \/ j.f[k].t \in {"null", "str"}
OptStrValue(j, k) == IF HasKey(j, k) /\ j.f[k].t = "str" THEN Some(j.f[k].v) ELSE None

\* Optional[int]: an integer, or a string of digits (coerced)
OptIntValid(j, k) ==
    \/ ~HasKey(j, k)
    \/ j.f[k].t \in {"null", "num"}
    \/ j.f[k].t = "str" /\ IsDigits(j.f[k].v)
OptIntValue(j, k) ==
    IF ~HasKey(j, k) \/ j.f[k].t = "null" THEN None
    ELSE IF j.f[k].t = "num" THEN Some(j.f[k].v)
    ELSE Some(ParseInt(j.f[k].v))

\* list[str] with default []: a JSON array of strings
StrListValid(j, k) ==
    \/ ~HasKey(j, k)
    \/ j.f[k].t = "arr" /\ \A i \in 1..Len(j.f[k].v) : j.f[k].v[i].t = "str"
StrListValue(j, k) ==
    IF ~HasKey(j, k) THEN <<>> ELSE [i \in 1..Len(j.f[k].v) |-> j.f[k].v[i].v]

\* ParsedQuery(**parsed_data) constructs without TypeError/ValidationError
ParsedQueryValid(j) ==
    /\ IsObj(j)
    /\ \A k \in {"category", "use_case", "room_size", "capacity", "size_preference"} :
          OptStrValid(j, k)
    /\ OptIntValid(j, "family_size")
    /\ StrListValid(j, "must_have_features")
    /\ StrListValid(j, "keywords")

ParsedQueryOf(j) ==
    [category |-> OptStrValue(j, "category"), use_case |-> OptStrValue(j, "use_case"),
     room_size |-> OptStrValue(j, "room_size"), family_size |-> OptIntValue(j, "family_size"),
     capacity |-> OptStrValue(j, "capacity"),
     size_preference |-> OptStrValue(j, "size_preference"),
     must_have_features |-> StrListValue(j, "must_have_features"),
     keywords |-> StrListValue(j, "keywords")]

\* Python truthiness of an Optional[str] and of an Optional[int] field
TruthyStr(o) == o.some /\ o.v # ""
TruthyInt(o) == o.some /\ o.v # 0

\* ------------------------------------------------------------------------
\* database.py: catalog loading
\* ------------------------------------------------------------------------

\* a specs dict is a sequence of entries [k |-> key, v |-> JStr or JArr of JStr]
\* in insertion order
SpecsHasKey(specs, k) == \E i \in 1..Len(specs) : specs[i].k = k
SpecsGet(specs, k) == specs[CHOOSE i \in 1..Len(specs) : specs[i].k = k].v

Quote(s) == "\"" \o s \o "\""

\* json.dumps of a string or of a list of strings
DumpValue(v) ==
    IF v.t = "str" THEN Quote(v.v)
    ELSE "[" \o JoinWith(", ", [i \in 1..Len(v.v) |-> Quote(v.v[i].v)]) \o "]"

\* json.dumps(specs)
JsonDumps(specs) ==
    "{" \o JoinWith(", ", [i \in 1..Len(specs) |->
                              Quote(specs[i].k) \o ": " \o DumpValue(specs[i].v)]) \o "}"

\* any(kw in text for kw in kws)
AnyIn(kws, text) == \E kw \in kws : Contains(kw, text)

detect_category(product_name, specs) ==
    LET name_lower == Lower(product_name)
        specs_str == Lower(JsonDumps(specs))
    IN IF AnyIn({"projector", "laser cinema"}, name_lower) THEN "projector"
       ELSE IF \/ SpecsHasKey(specs, "projection_size")
               \/ SpecsHasKey(specs, "throw_distance")
               \/ Contains("throw_ratio", specs_str) THEN "projector"
       ELSE IF Contains("dishwasher", name_lower) THEN "dishwasher"
       ELSE IF AnyIn({"tv", "uled", "qled", "miniled", "mini-led", "uhd"}, name_lower) THEN "tv"
       ELSE IF \/ SpecsHasKey(specs, "display_sizes")
               \/ (Contains("resolution", specs_str) /\ Contains("4k", specs_str)) THEN "tv"
       ELSE IF AnyIn({"refrigerator", "fridge", "freezer"}, name_lower) THEN "refrigerator"
       ELSE IF Contains("refrigerator", specs_str) \/ Contains("freezer", specs_str)
            THEN "refrigerator"
       ELSE IF AnyIn({"washing machine", "washer", "front load", "top load"}, name_lower)
            THEN "washing_machine"
       ELSE IF Contains("dryer", name_lower) /\ ~Contains("washer", name_lower) THEN "dryer"
       ELSE IF AnyIn({"ac", "air conditioner", "inverter", "split", "wall mounted"}, name_lower)
            THEN "ac"
       ELSE IF \/ Contains("tonnage", specs_str) \/ Contains("btu", specs_str)
               \/ Contains("cooling", specs_str) THEN "ac"
       ELSE IF AnyIn({"soundbar", "sound bar", "speaker"}, name_lower) THEN "soundbar"
       ELSE IF SpecsHasKey(specs, "channels") \/ Contains("subwoofer", specs_str)
            THEN "soundbar"
       ELSE IF Contains("dishwasher", name_lower) THEN "dishwasher"
       ELSE "tv"

RECURSIVE DigitRunEnd(_, _)
\* index of the last digit of the run of digits that starts at i
DigitRunEnd(s, i) ==
    IF i < Len(s) /\ IsDigit(CharAt(s, i + 1)) THEN DigitRunEnd(s, i + 1) ELSE i

RECURSIVE SkipSpaces(_, _)
SkipSpaces(s, i) ==
    IF i <= Len(s) /\ CharAt(s, i) \in SpaceChars THEN SkipSpaces(s, i + 1) ELSE i

\* the pattern (\d+)\s*unit, ignoring case, matches at position i
UnitMatchAt(s, i, unit) ==
    /\ IsDigit(CharAt(s, i))
    /\ LET k == SkipSpaces(s, DigitRunEnd(s, i) + 1) IN
         /\ k + Len(unit) - 1 <= Len(s)
         /\ Lower(SubSeq(s, k, k + Len(unit) - 1)) = unit

\* re.search(r'(\d+)\s*unit', s, re.IGNORECASE): group(1) of the leftmost
\* match, or None
SearchCapacity(s, unit) ==
    IF \E i \in 1..Len(s) : UnitMatchAt(s, i, unit)
    THEN LET i == CHOOSE i \in 1..Len(s) :
                     /\ UnitMatchAt(s, i, unit)
                     /\ \A j \in 1..(i - 1) : ~UnitMatchAt(s, j, unit)
         IN Some(SubSeq(s, i, DigitRunEnd(s, i)))
    ELSE None

RECURSIVE ExtendSizes(_, _)
\* the loop over the common size fields: lists are appended, in key order
ExtendSizes(specs, keys) ==
    IF Len(keys) = 0 THEN <<>>
    ELSE (IF SpecsHasKey(specs, keys[1]) /\ SpecsGet(specs, keys[1]).t = "arr"
          THEN [i \in 1..Len(SpecsGet(specs, keys[1]).v) |-> SpecsGet(specs, keys[1]).v[i].v]
          ELSE <<>>) \o ExtendSizes(specs, Tail(keys))

extract_sizes(specs, product_name) ==
    LET liters == SearchCapacity(product_name, "l")
        kilos == SearchCapacity(product_name, "kg")
    IN ExtendSizes(specs, <<"display_sizes", "available_sizes", "screen_sizes", "sizes">>)
       \o (IF liters.some THEN <<liters.v \o "L">> ELSE <<>>)
       \o (IF kilos.some THEN <<kilos.v \o "kg">> ELSE <<>>)
       \o (IF SpecsHasKey(specs, "projection_size")
           THEN <<SpecsGet(specs, "projection_size").v>> ELSE <<>>)

\* re.sub(r'[^a-z0-9]+', '-', s): a run of other characters becomes one "-"
\* (its first character yields the "-", the rest of the run nothing)
Slugify(s) ==
    LET pieces == [i \in 1..Len(s) |->
                      IF IsAlnumLower(CharAt(s, i)) THEN CharAt(s, i)
                      ELSE IF i > 1 /\ ~IsAlnumLower(CharAt(s, i - 1)) THEN ""
                      ELSE "-"]
    IN ConcatRange(pieces, 1, Len(s))

\* slug.strip('-')
StripDash(s) == SubSeq(s, FirstNotIn(s, {"-"}), LastNotIn(s, {"-"}))

Digit(n) == CharAt(DigitChars, n + 1)

\* f"{index:03d}", for 0 <= index < 1000
Format03d(index) ==
    Digit(index \div 100) \o Digit((index \div 10) % 10) \o Digit(index % 10)

generate_id(product_name, index) ==
    LET slug == Take(StripDash(Slugify(Lower(product_name))), 30)
    IN slug \o "-" \o Format03d(index)

\* the features of a raw record: the "value" of a mapping entry (default ""),
\* a plain string as it is
LoadFeatures(key_features) ==
    [i \in 1..Len(key_features) |->
        IF key_features[i].t = "obj"
        THEN (IF HasKey(key_features[i], "value") THEN key_features[i].f["value"].v ELSE "")
        ELSE key_features[i].v]

\* one iteration of the loop of _load_products: raw record p at index i
LoadProduct(p, i) ==
    [id |-> generate_id(p.product_name, i),
     name |-> p.product_name,
     category |-> detect_category(p.product_name, p.technical_specifications),
     brand |-> "Hisense",
     specs |-> p.technical_specifications,
     features |-> LoadFeatures(p.key_features),
     url |-> p.product_name_citation,
     sizes |-> extract_sizes(p.technical_specifications, p.product_name)]

\* ------------------------------------------------------------------------
\* database.py: catalog queries (products is the list self.products)
\* ------------------------------------------------------------------------

\* ProductCategory(value) raises ValueError unless value is an enum value
IsCategory(value) == value \in ProductCategory

\* variant: the first product is returned when no id matches
get_product_by_id_FirstOnMiss(products, product_id) ==
    IF \E i \in 1..Len(products) : products[i].id = product_id
    THEN Some(products[CHOOSE i \in 1..Len(products) :
                          /\ products[i].id = product_id
                          /\ \A j \in 1..(i - 1) : products[j].id # product_id])
    ELSE IF Len(products) > 0 THEN Some(products[1]) ELSE None

get_product_by_id(products, product_id) ==
    IF \E i \in 1..Len(products) : products[i].id = product_id
    THEN Some(products[CHOOSE i \in 1..Len(products) :
                          /\ products[i].id = product_id
                          /\ \A j \in 1..(i - 1) : products[j].id # product_id])
    ELSE None

\* category and brands are Optional: None, or Some(string) / Some(list)
filter_products(products, category, brands) ==
    LET byCategory ==
            IF TruthyStr(category) /\ IsCategory(Lower(category.v))
            THEN LET InCat(p) == p.category = Lower(category.v) IN SelectSeq(products, InCat)
            ELSE products
        byBrand ==
            IF brands.some /\ Len(brands.v) > 0
            THEN LET InBrands(p) ==
                        \E i \in 1..Len(brands.v) : Lower(p.brand) = Lower(brands.v[i])
                 IN SelectSeq(byCategory, InBrands)
            ELSE byCategory
    IN byBrand

\* get_products_by_category(category): category is an enum value or its string
get_products_by_category(products, category) ==
    LET InCat(p) == p.category = category IN SelectSeq(products, InCat)

\* the characters of the catalog's strings in code point order
CharOrder == " \"-.0123456789ABCDEFGHIJKLMNOPQRSTUVWXYZ_abcdefghijklmnopqrstuvwxyz"

\* a < b as Python compares str: by code point, a proper prefix first
StrLess(a, b) ==
    LET n == Min(Len(a), Len(b))
        differ == {i \in 1..n : CharAt(a, i) # CharAt(b, i)}
    IN IF differ = {} THEN Len(a) < Len(b)
       ELSE LET i == CHOOSE k \in differ : \A j \in differ : k <= j
            IN IndexIn(CharAt(a, i), CharOrder) < IndexIn(CharAt(b, i), CharOrder)

RECURSIVE Sorted(_)
\* sorted(set_of_strings)
Sorted(S) ==
    IF S = {} THEN <<>>
    ELSE LET least == CHOOSE x \in S : \A y \in S \ {x} : StrLess(x, y)
         IN <<least>> \o Sorted(S \ {least})

\* get_categories(): the categories that have products, sorted
get_categories(products) ==
    Sorted({products[i].category : i \in 1..Len(products)})

\* get_brands(category): the brands, of one category when it is recognized
get_brands(products, category) ==
    LET scoped ==
            IF TruthyStr(category) /\ IsCategory(Lower(category.v))
            THEN get_products_by_category(products, Lower(category.v))
            ELSE products
    IN Sorted({scoped[i].brand : i \in 1..Len(scoped)})

\* search_products(query): name, then specs, then features; a product is
\* appended once
search_products(products, q) ==
    LET query_lower == Lower(q)
        Matches(p) ==
            \/ Contains(query_lower, Lower(p.name))
            \/ Contains(query_lower, Lower(JsonDumps(p.specs)))
            \/ Contains(query_lower, Lower(JoinWith(" ", p.features)))
    IN SelectSeq(products, Matches)

\* ------------------------------------------------------------------------
\* ai_service.py
\* A reply of the external service is [kind |-> "error"] (the client call
\* raised) or [kind |-> "reply", content |-> NoContent or a Text].
\* A call result is [raised |-> FALSE, value |-> v] or
\* [raised |-> TRUE, error |-> name of the exception].
\* ------------------------------------------------------------------------

ServiceError == [kind |-> "error"]
Reply(content) == [kind |-> "reply", content |-> content]

Returned(v) == [raised |-> FALSE, value |-> v]
Raised(e) == [raised |-> TRUE, error |-> e]

\* the try block shared by both methods, up to json.loads:
\* "Exception" for a failing call or content None (None.strip()),
\* "JSONDecodeError" for text that does not decode, else the decoded value
DecodeReply(reply) ==
    IF reply.kind = "error" THEN Raised("Exception")
    ELSE IF reply.content = NoContent THEN Raised("Exception")
    ELSE IF ~JsonDecodes(CleanContent(reply.content)) THEN Raised("JSONDecodeError")
    ELSE Returned(JsonLoads(CleanContent(reply.content)))

\* the try block of parse_query: decoding, then ParsedQuery(**parsed_data)
\* (TypeError for a value that is not a mapping, ValidationError for fields
\* of the wrong type)
ParseQueryBody(reply) ==
    LET decoded == DecodeReply(reply) IN
    IF decoded.raised THEN decoded
    ELSE IF ~IsObj(decoded.value) THEN Raised("TypeError")
    ELSE IF ~ParsedQueryValid(decoded.value) THEN Raised("ValidationError")
    ELSE Returned(ParsedQueryOf(decoded.value))

\* variant: only the JSONDecodeError clause
ParseQueryCaught_JsonOnly == {"JSONDecodeError"}

\* the exceptions the two except clauses of parse_query catch
\* (every one of the above derives from Exception)
ParseQueryCaught == {"JSONDecodeError", "Exception", "TypeError", "ValidationError"}

parse_query(reply) ==
    LET body == ParseQueryBody(reply) IN
    IF body.raised /\ body.error \in ParseQueryCaught THEN Returned(EmptyParsedQuery)
    ELSE body

NoMatchMessage ==
    "I couldn't find any products matching your requirements. Could you try adjusting your budget or requirements?"

RECURSIVE FormatInt(_)
FormatInt(n) == IF n < 10 THEN Digit(n) ELSE FormatInt(n \div 10) \o Digit(n % 10)

RECURSIVE FormatThousands(_)
\* f"{n:,}"
FormatThousands(n) ==
    IF n < 1000 THEN FormatInt(n)
    ELSE FormatThousands(n \div 1000) \o "," \o Format03d(n % 1000)

\* variant: the fallback keeps the response's limit of 3 instead of 5
DecodeFallback_Top3(filtered_products) ==
    JObj([message |-> JStr("Here are some products that match your requirements:"),
          recommendations |-> JArr(
              [i \in 1..Len(Take(filtered_products, 3)) |->
                  JObj([product_id |-> JStr(filtered_products[i].id),
                        score |-> JNum(70),
                        reasoning |-> JStr(filtered_products[i].name
                                           \o " - a solid choice in this category.")])])])

\* the fallback of the JSONDecodeError handler
DecodeFallback(filtered_products) ==
    JObj([message |-> JStr("Here are some products that match your requirements:"),
          recommendations |-> JArr(
              [i \in 1..Len(Take(filtered_products, 5)) |->
                  JObj([product_id |-> JStr(filtered_products[i].id),
                        score |-> JNum(70),
                        reasoning |-> JStr(filtered_products[i].name
                                           \o " - a solid choice in this category.")])])])

\* the fallback of the generic handler: p['brand'] and p['price'] raise
\* KeyError, out of the handler, when a candidate dict lacks the key
ErrorFallback(filtered_products) ==
    IF \E i \in 1..Len(Take(filtered_products, 5)) :
           ~({"brand", "price"} \subseteq DOMAIN filtered_products[i])
    THEN Raised("KeyError")
    ELSE Returned(
        JObj([message |-> JStr("Here are some products that might interest you:"),
              recommendations |-> JArr(
                  [i \in 1..Len(Take(filtered_products, 5)) |->
                      JObj([product_id |-> JStr(filtered_products[i].id),
                            score |-> JNum(70),
                            reasoning |-> JStr(filtered_products[i].name \o " by "
                                \o filtered_products[i].brand \o " at Rs"
                                \o FormatThousands(filtered_products[i].price))])])]))

\* variant: no early return for an empty candidate list
ExplainCallMade_Always(filtered_products) == TRUE

\* TRUE when generate_recommendations sends a request to the service
ExplainCallMade(filtered_products) == Len(filtered_products) > 0

\* variant: the generic handler comes first and takes the decode error too
generate_recommendations_GenericFirst(filtered_products, reply) ==
    IF Len(filtered_products) = 0
    THEN Returned(JObj([message |-> JStr(NoMatchMessage), recommendations |-> JArr(<<>>)]))
    ELSE LET decoded == DecodeReply(reply) IN
         IF ~decoded.raised THEN decoded
         ELSE ErrorFallback(filtered_products)

generate_recommendations(filtered_products, reply) ==
    IF Len(filtered_products) = 0
    THEN Returned(JObj([message |-> JStr(NoMatchMessage), recommendations |-> JArr(<<>>)]))
    ELSE LET decoded == DecodeReply(reply) IN
         IF ~decoded.raised THEN decoded
         ELSE IF decoded.error = "JSONDecodeError" THEN Returned(DecodeFallback(filtered_products))
         ELSE ErrorFallback(filtered_products)

\* ------------------------------------------------------------------------
\* recommendation_engine.py: filtering and scoring
\* ------------------------------------------------------------------------

RECURSIVE SumSeq(_)
SumSeq(ns) == IF Len(ns) = 0 THEN 0 ELSE ns[1] + SumSeq(Tail(ns))

\* b as 0/1 times points
Bonus(b, points) == IF b THEN points ELSE 0

\* variant: the category is compared without the enumeration check
_filter_products_NoEnumCheck(products, parsed) ==
    IF TruthyStr(parsed.category)
    THEN LET InCat(p) == p.category = Lower(parsed.category.v) IN SelectSeq(products, InCat)
    ELSE products

_filter_products(products, parsed) ==
    IF TruthyStr(parsed.category) /\ IsCategory(Lower(parsed.category.v))
    THEN LET InCat(p) == p.category = Lower(parsed.category.v) IN SelectSeq(products, InCat)
    ELSE products

\* variant: the operands of the trigger tests are swapped (use_case in "gaming")
TvBonus_OperandsSwapped(use_case, features_text, specs_text) ==
      (IF Contains(use_case, "gaming") \/ Contains(use_case, "game")
       THEN Bonus(\/ Contains("120hz", specs_text) \/ Contains("144hz", specs_text)
                  \/ Contains("165hz", specs_text), 15)
            + Bonus(Contains("game mode", features_text)
                    \/ Contains("game bar", features_text), 10)
            + Bonus(Contains("vrr", specs_text) \/ Contains("allm", specs_text), 5)
       ELSE 0)
    + (IF Contains(use_case, "movie") \/ Contains(use_case, "cinema")
       THEN Bonus(Contains("dolby vision", specs_text)
                  \/ Contains("dolby atmos", features_text), 15)
            + Bonus(Contains("hdr", specs_text), 10)
            + Bonus(\/ Contains("oled", specs_text) \/ Contains("miniled", specs_text)
                    \/ Contains("mini-led", specs_text), 10)
       ELSE 0)
    + (IF Contains(use_case, "sport")
       THEN Bonus(Contains("sports mode", features_text)
                  \/ Contains("ai sports", features_text), 15)
            + Bonus(Contains("memc", specs_text) \/ Contains("motion", features_text), 10)
       ELSE 0)

\* the branch of _use_case_score for each category
TvBonus(use_case, features_text, specs_text) ==
      (IF Contains("gaming", use_case) \/ Contains("game", use_case)
       THEN Bonus(\/ Contains("120hz", specs_text) \/ Contains("144hz", specs_text)
                  \/ Contains("165hz", specs_text), 15)
            + Bonus(Contains("game mode", features_text)
                    \/ Contains("game bar", features_text), 10)
            + Bonus(Contains("vrr", specs_text) \/ Contains("allm", specs_text), 5)
       ELSE 0)
    + (IF Contains("movie", use_case) \/ Contains("cinema", use_case)
       THEN Bonus(Contains("dolby vision", specs_text)
                  \/ Contains("dolby atmos", features_text), 15)
            + Bonus(Contains("hdr", specs_text), 10)
            + Bonus(\/ Contains("oled", specs_text) \/ Contains("miniled", specs_text)
                    \/ Contains("mini-led", specs_text), 10)
       ELSE 0)
    + (IF Contains("sport", use_case)
       THEN Bonus(Contains("sports mode", features_text)
                  \/ Contains("ai sports", features_text), 15)
            + Bonus(Contains("memc", specs_text) \/ Contains("motion", features_text), 10)
       ELSE 0)

RefrigeratorBonus(product, parsed) ==
    IF TruthyInt(parsed.family_size) /\ SearchCapacity(product.name, "l").some
    THEN LET capacity == ParseInt(SearchCapacity(product.name, "l").v)
             ideal == parsed.family_size.v * 100
         IN IF Abs(capacity - ideal) < 100 THEN 15
            ELSE IF Abs(capacity - ideal) < 200 THEN 10
            ELSE 0
    ELSE 0

WashingMachineBonus(product, parsed, use_case, features_text) ==
      (IF TruthyInt(parsed.family_size) /\ SearchCapacity(product.name, "kg").some
       THEN LET capacity == ParseInt(SearchCapacity(product.name, "kg").v)
                ideal == parsed.family_size.v * 2
            IN IF Abs(capacity - ideal) <= 2 THEN 15
               ELSE IF Abs(capacity - ideal) <= 4 THEN 10
               ELSE 0
       ELSE 0)
    + (IF Contains("smart", use_case) \/ Contains("connected", use_case)
       THEN Bonus(Contains("connect", features_text) \/ Contains("app", features_text), 10)
       ELSE 0)

AcBonus(parsed, features_text, specs_text) ==
    LET room_size == IF TruthyStr(parsed.room_size) THEN Lower(parsed.room_size.v) ELSE "" IN
      (IF Contains("large", room_size) \/ Contains("living", room_size)
       THEN Bonus(Contains("2 ton", specs_text) \/ Contains("24000", specs_text), 15)
       ELSE IF Contains("small", room_size) \/ Contains("bedroom", room_size)
       THEN Bonus(Contains("1 ton", specs_text) \/ Contains("1.5 ton", specs_text), 15)
       ELSE 0)
    + Bonus(Contains("inverter", features_text) \/ Contains("inverter", specs_text), 5)

SoundbarBonus(product, use_case, features_text, specs_text) ==
      (IF Contains("movie", use_case) \/ Contains("cinema", use_case)
       THEN Bonus(Contains("dolby atmos", features_text) \/ Contains("atmos", specs_text), 15)
       ELSE 0)
    + (IF Contains("bass", use_case) \/ Contains("music", use_case)
       THEN Bonus(Contains("subwoofer", Lower(product.name))
                  \/ Contains("subwoofer", specs_text), 10)
       ELSE 0)

ProjectorBonus(product, use_case, specs_text) ==
    IF Contains("cinema", use_case) \/ Contains("movie", use_case)
    THEN Bonus(Contains("laser", Lower(product.name)) \/ Contains("4k", specs_text), 15)
         + Bonus(Contains("dolby", specs_text), 10)
    ELSE 0

_use_case_score(product, parsed) ==
    LET use_case == IF TruthyStr(parsed.use_case) THEN Lower(parsed.use_case.v) ELSE ""
        features_text == Lower(JoinWith(" ", product.features))
        specs_text == Lower(JsonDumps(product.specs))
    IN CASE product.category = "tv" -> TvBonus(use_case, features_text, specs_text)
         [] product.category = "refrigerator" -> RefrigeratorBonus(product, parsed)
         [] product.category = "washing_machine" ->
                WashingMachineBonus(product, parsed, use_case, features_text)
         [] product.category = "ac" -> AcBonus(parsed, features_text, specs_text)
         [] product.category = "soundbar" ->
                SoundbarBonus(product, use_case, features_text, specs_text)
         [] product.category = "projector" -> ProjectorBonus(product, use_case, specs_text)
         [] OTHER -> 0

\* variant: no upper clamp
CapScore_None(score) == score

\* min(score, 100)
CapScore(score) == Min(score, 100)

\* the category match bonus
CategoryBonus(product, parsed) ==
    Bonus(/\ TruthyStr(parsed.category)
          /\ IsCategory(Lower(parsed.category.v))
          /\ product.category = Lower(parsed.category.v), 15)

\* the first loop over keywords: the product name
KeywordNameBonus(keywords, name_lower) ==
    SumSeq([i \in 1..Len(keywords) |-> Bonus(Contains(Lower(keywords[i]), name_lower), 10)])

\* variant: the features text and the specs text each earn the bonus
KeywordFeatureBonus_Each(keywords, features_text, specs_text) ==
    SumSeq([i \in 1..Len(keywords) |->
               Bonus(Contains(Lower(keywords[i]), features_text), 5)
               + Bonus(Contains(Lower(keywords[i]), specs_text), 5)])

\* the second loop over keywords: features text or specs text
KeywordFeatureBonus(keywords, features_text, specs_text) ==
    SumSeq([i \in 1..Len(keywords) |->
               Bonus(\/ Contains(Lower(keywords[i]), features_text)
                     \/ Contains(Lower(keywords[i]), specs_text), 5)])

\* the loop over the terms of the query
QueryTermBonus(product, query) ==
    LET name_lower == Lower(product.name)
        features_text == Lower(JoinWith(" ", product.features))
        specs_text == Lower(JsonDumps(product.specs))
        query_terms == SplitWs(Lower(query))
    IN SumSeq([i \in 1..Len(query_terms) |->
                  IF Len(query_terms[i]) > 3
                  THEN Bonus(Contains(query_terms[i], name_lower), 3)
                       + Bonus(\/ Contains(query_terms[i], features_text)
                               \/ Contains(query_terms[i], specs_text), 2)
                  ELSE 0])

\* size preference and capacity matching
SizeBonus(product, parsed) ==
    LET specs_text == Lower(JsonDumps(product.specs)) IN
    IF TruthyStr(parsed.size_preference)
    THEN LET size_pref == Lower(parsed.size_preference.v) IN
         Bonus(\E i \in 1..Len(product.sizes) :
                   Contains(size_pref, Lower(product.sizes[i])), 15)
         + Bonus(Contains(size_pref, specs_text), 10)
    ELSE 0

CapacityBonus(product, parsed) ==
    LET specs_text == Lower(JsonDumps(product.specs)) IN
    IF TruthyStr(parsed.capacity)
    THEN LET capacity == Lower(parsed.capacity.v) IN
         Bonus(Contains(capacity, Lower(product.name)) \/ Contains(capacity, specs_text), 15)
    ELSE 0

\* score of one product before min(score, 100)
RawScore(product, parsed, query) ==
    LET name_lower == Lower(product.name)
        features_text == Lower(JoinWith(" ", product.features))
        specs_text == Lower(JsonDumps(product.specs))
        keywords == parsed.keywords \o parsed.must_have_features
    IN 50 + CategoryBonus(product, parsed)
       + KeywordNameBonus(keywords, name_lower)
       + KeywordFeatureBonus(keywords, features_text, specs_text)
       + QueryTermBonus(product, query)
       + SizeBonus(product, parsed)
       + CapacityBonus(product, parsed)
       + _use_case_score(product, parsed)

\* the body of the loop of _score_products for one product
ScoreOne(product, parsed, query) ==
    [product |-> product, score |-> CapScore(RawScore(product, parsed, query))]

_score_products(products, parsed, query) ==
    [i \in 1..Len(products) |-> ScoreOne(products[i], parsed, query)]

\* variant: e goes in front of the entries of equal score
InsertPosition_Strict(sorted, e) ==
    Cardinality({i \in 1..Len(sorted) : sorted[i].score > e.score})

\* where list.sort(key=score, reverse=True) puts e in an already sorted list:
\* behind every entry whose score is not smaller (the sort is stable)
InsertPosition(sorted, e) ==
    Cardinality({i \in 1..Len(sorted) : sorted[i].score >= e.score})

InsertByScore(sorted, e) ==
    LET k == InsertPosition(sorted, e) IN
    SubSeq(sorted, 1, k) \o <<e>> \o SubSeq(sorted, k + 1, Len(sorted))

RECURSIVE SortByScoreDesc(_)
\* scored_products.sort(key=lambda x: x["score"], reverse=True)
SortByScoreDesc(scored) ==
    IF Len(scored) = 0 THEN <<>>
    ELSE InsertByScore(SortByScoreDesc(SubSeq(scored, 1, Len(scored) - 1)),
                       scored[Len(scored)])

\* variant: the sort is applied to the filtered list itself, which is the
\* catalog's own list when no category filter applies
CatalogAfterSort_InPlace(catalog, filtered, sorted) ==
    IF filtered = catalog THEN [i \in 1..Len(sorted) |-> sorted[i].product] ELSE catalog

\* self.products after step 3: _filter_products may return the catalog's own
\* list (get_all_products returns self.products), but the sort is applied to
\* the new list _score_products built
CatalogAfterSort(catalog, filtered, sorted) == catalog

\* the dict handed to the explanation generator for one scored product
ProductForAi(p) ==
    [id |-> p.product.id, name |-> p.product.name, category |-> p.product.category,
     specs |-> p.product.specs, features |-> p.product.features,
     sizes |-> p.product.sizes, url |-> p.product.url]

\* variant: the slice keeps the last ten ([-10:])
products_for_ai_LastTen(scored_products) ==
    LET n == Len(scored_products)
        first == IF n > 10 THEN n - 9 ELSE 1
    IN [i \in 1..(n - first + 1) |-> ProductForAi(scored_products[first + i - 1])]

products_for_ai(scored_products) ==
    [i \in 1..Len(Take(scored_products, 10)) |-> ProductForAi(scored_products[i])]

\* ------------------------------------------------------------------------
\* The catalog source: raw records of the static product file, in file order
\* ------------------------------------------------------------------------

RawProducts == <<
    [product_name |-> "Hisense 65 inch U7K Mini-LED ULED TV",
     technical_specifications |->
        <<[k |-> "display_sizes", v |-> JArr(<<JStr("55 inch"), JStr("65 inch")>>)],
          [k |-> "refresh_rate", v |-> JStr("144Hz VRR")],
          [k |-> "hdr", v |-> JStr("Dolby Vision HDR10")]>>,
     key_features |-> <<JObj([value |-> JStr("Game Mode Pro")]), JStr("Dolby Atmos"), JStr("AI Sports Mode")>>,
     product_name_citation |-> Some("https://hisense.example/u7k")],
    [product_name |-> "Hisense 507L Side by Side Refrigerator",
     technical_specifications |->
        <<[k |-> "capacity", v |-> JStr("507 Liters")]>>,
     key_features |-> <<JStr("Inverter compressor")>>,
     product_name_citation |-> None],
    [product_name |-> "Hisense 8kg Front Load Washing Machine",
     technical_specifications |->
        <<[k |-> "capacity", v |-> JStr("8 kg")]>>,
     key_features |-> <<JObj([value |-> JStr("ConnectLife app")])>>,
     product_name_citation |-> None],
    [product_name |-> "Hisense 55 inch A6K UHD Smart TV",
     technical_specifications |->
        <<[k |-> "display_sizes", v |-> JArr(<<JStr("43 inch"), JStr("55 inch")>>)],
          [k |-> "refresh_rate", v |-> JStr("60Hz MEMC")]>>,
     key_features |-> <<JStr("Smart VIDAA")>>,
     product_name_citation |-> None],
    [product_name |-> "Hisense 2 Ton Split Air Conditioner",
     technical_specifications |->
        <<[k |-> "tonnage", v |-> JStr("2 Ton")],
          [k |-> "btu", v |-> JStr("24000")]>>,
     key_features |-> <<JStr("Inverter")>>,
     product_name_citation |-> None],
    [product_name |-> "Hisense HS2100 Soundbar",
     technical_specifications |->
        <<[k |-> "channels", v |-> JStr("2.1")],
          [k |-> "audio", v |-> JStr("Wireless Subwoofer")]>>,
     key_features |-> <<JStr("Dolby Atmos")>>,
     product_name_citation |-> None],
    [product_name |-> "Hisense C1 Laser Cinema",
     technical_specifications |->
        <<[k |-> "projection_size", v |-> JStr("100 inch")],
          [k |-> "resolution", v |-> JStr("4K Dolby Vision")]>>,
     key_features |-> <<>>,
     product_name_citation |-> None],
    [product_name |-> "Hisense 1.5 Ton Wall Mounted AC",
     technical_specifications |->
        <<[k |-> "tonnage", v |-> JStr("1.5 Ton")]>>,
     key_features |-> <<JStr("Fast cooling")>>,
     product_name_citation |-> None],
    [product_name |-> "Hisense 300 L Top Mount Fridge",
     technical_specifications |->
        <<>>,
     key_features |-> <<JStr("Frost free")>>,
     product_name_citation |-> None],
    [product_name |-> "Hisense 12 KG Top Load Washer",
     technical_specifications |->
        <<>>,
     key_features |-> <<>>,
     product_name_citation |-> None],
    [product_name |-> "Hisense 75 inch U8 QLED TV",
     technical_specifications |->
        <<[k |-> "display_sizes", v |-> JArr(<<JStr("75 inch")>>)],
          [k |-> "panel", v |-> JStr("120Hz OLED HDR")]>>,
     key_features |-> <<JStr("Game Bar"), JStr("Motion smoothing")>>,
     product_name_citation |-> None],
    [product_name |-> "Hisense 8kg Heat Pump Dryer",
     technical_specifications |->
        <<>>,
     key_features |-> <<JStr("Heat pump")>>,
     product_name_citation |-> None]
>>

\* the number of leading raw records the catalog file may hold
MaxProducts == 11

\* _load_products on the first n raw records
LoadProducts(n) == [i \in 1..n |-> LoadProduct(RawProducts[i], i - 1)]

\* ------------------------------------------------------------------------
\* recommendation_engine.py: building the response (step 5) and models.py
\* validation of ProductRecommendation and RecommendationResponse
\* ------------------------------------------------------------------------

DefaultScore == 70
DefaultMessage == "Here are your recommendations:"

\* the number pydantic reads from a score, for a score it can read
ScoreNumber(j) == IF j.t = "num" THEN j.v ELSE ParseInt(j.v)

\* score: float = Field(..., ge=0, le=100)
ScoreValid(j) ==
    /\ j.t = "num" \/ (j.t = "str" /\ IsDigits(j.v))
    /\ ScoreNumber(j) >= 0
    /\ ScoreNumber(j) <= 100

\* one iteration of the loop over the generator's entries:
\* Raised(..), Returned(None) for an id that does not resolve, or
\* Returned(Some(recommendation))
BuildRecommendation(products, rec) ==
    IF ~IsObj(rec) THEN Raised("TypeError")
    ELSE IF ~HasKey(rec, "product_id") THEN Raised("KeyError")
    ELSE LET product == IF rec.f["product_id"].t = "str"
                        THEN get_product_by_id(products, rec.f["product_id"].v)
                        ELSE None
             score == DictGet(rec, "score", JNum(DefaultScore))
             reasoning == DictGet(rec, "reasoning", JStr(""))
         IN IF ~product.some THEN Returned(None)
            ELSE IF ~ScoreValid(score) \/ reasoning.t # "str" THEN Raised("ValidationError")
            ELSE Returned(Some([product |-> product.v, score |-> ScoreNumber(score),
                                reasoning |-> reasoning.v]))

\* variant: every entry of the generator is taken
FirstEntries_NoLimit(ai_result) ==
    LET recs == DictGet(ai_result, "recommendations", JArr(<<>>)) IN
    IF recs.t = "arr" THEN Returned(recs.v)
    ELSE IF recs.t = "str" /\ recs.v = "" THEN Returned(<<>>)
    ELSE Raised("TypeError")

\* ai_result.get("recommendations", [])[:3], as a call result
FirstEntries(ai_result) ==
    LET recs == DictGet(ai_result, "recommendations", JArr(<<>>)) IN
    IF recs.t = "arr" THEN Returned(Take(recs.v, 3))
    ELSE IF recs.t = "str" /\ recs.v = "" THEN Returned(<<>>)
    ELSE Raised("TypeError")

RECURSIVE CollectRecommendations(_, _)
\* the loop: the first entry that raises ends it
CollectRecommendations(products, entries) ==
    IF Len(entries) = 0 THEN Returned(<<>>)
    ELSE LET first == BuildRecommendation(products, entries[1]) IN
         IF first.raised THEN first
         ELSE LET rest == CollectRecommendations(products, Tail(entries)) IN
              IF rest.raised THEN rest
              ELSE Returned((IF first.value.some THEN <<first.value.v>> ELSE <<>>)
                            \o rest.value)

\* step 5 of get_recommendations, from the generator's result on
BuildResponse(products, query, parsed, ai_result) ==
    IF ~IsObj(ai_result) THEN Raised("AttributeError")
    ELSE IF FirstEntries(ai_result).raised THEN FirstEntries(ai_result)
    ELSE LET recs == CollectRecommendations(products, FirstEntries(ai_result).value)
             message == DictGet(ai_result, "message", JStr(DefaultMessage))
         IN IF recs.raised THEN recs
            ELSE IF message.t # "str" THEN Raised("ValidationError")
            ELSE Returned([query |-> query, parsed_query |-> parsed,
                           recommendations |-> recs.value, message |-> message.v])

\* get_recommendations from the generator's call result on
FinishRequest(products, query, parsed, generated) ==
    IF generated.raised THEN generated
    ELSE BuildResponse(products, query, parsed, generated.value)

\* ------------------------------------------------------------------------
\* main.py: the listing endpoint
\* ------------------------------------------------------------------------

\* list_products(category, brand): brands = [brand] if brand else None
list_products(products, category, brand) ==
    filter_products(products, category, IF TruthyStr(brand) THEN Some(<<brand.v>>) ELSE None)

\* get_product(product_id): 404 for an id that does not resolve
get_product(products, product_id) ==
    IF get_product_by_id(products, product_id).some
    THEN Returned(get_product_by_id(products, product_id).v)
    ELSE Raised("HTTPException")

\* search_products(q) of the HTTP layer
search_endpoint(products, q) ==
    [query |-> q, count |-> Len(search_products(products, q)),
     products |-> search_products(products, q)]

UpperChar(c) ==
    IF IndexIn(c, LowerChars) > 0 THEN CharAt(UpperChars, IndexIn(c, LowerChars)) ELSE c

\* cat.replace("_", " ").title()
CategoryName(cat) ==
    LET IsLetter(c) == IndexIn(c, LowerChars) > 0 \/ IndexIn(c, UpperChars) > 0
        spaced == [i \in 1..Len(cat) |-> IF CharAt(cat, i) = "_" THEN " " ELSE CharAt(cat, i)]
        titled == [i \in 1..Len(cat) |->
                      IF i > 1 /\ IsLetter(spaced[i - 1]) THEN LowerChar(spaced[i])
                      ELSE UpperChar(spaced[i])]
    IN ConcatRange(titled, 1, Len(cat))

\* list_categories()
list_categories(products) ==
    LET categories == get_categories(products) IN
    [categories |->
        [i \in 1..Len(categories) |->
            [id |-> categories[i], name |-> CategoryName(categories[i]),
             count |-> Len(get_products_by_category(products, categories[i]))]]]

\* list_brands(category)
list_brands(products, category) == [brands |-> get_brands(products, category)]

\* ------------------------------------------------------------------------
\* Inputs
\* ------------------------------------------------------------------------

Queries == {"Best TV for gaming with 120Hz", "large fridge for a family of 5"}

StrArr(strs) == JArr([i \in 1..Len(strs) |-> JStr(strs[i])])

\* JSON objects the parsing service may return that validate as a ParsedQuery
IntentDocs ==
    { JObj([category |-> JStr("tv"), use_case |-> JStr("gaming"),
            keywords |-> StrArr(<<"120Hz">>), must_have_features |-> StrArr(<<"Game Mode">>)]),
      JObj([category |-> JStr("TV"), use_case |-> JStr("Movies and sports"),
            size_preference |-> JStr("65 inch"), keywords |-> StrArr(<<"ULED", "hdr", "ULED">>)]),
      JObj([category |-> JStr("refrigerator"), family_size |-> JNum(5),
            capacity |-> JStr("507L")]),
      JObj([category |-> JStr("washing_machine"), family_size |-> JStr("4"),
            use_case |-> JStr("smart connected home")]),
      JObj([category |-> JStr("ac"), room_size |-> JStr("large living room")]),
      JObj([category |-> JStr("AC"), room_size |-> JStr("small bedroom")]),
      JObj([category |-> JStr("ac"), room_size |-> JStr("large bedroom")]),
      JObj([keywords |-> StrArr(<<"2 Ton", "Inverter", "Dolby">>),
            must_have_features |-> StrArr(<<"2 ton">>)]),
      JObj([category |-> JStr("soundbar"), use_case |-> JStr("movies and music")]),
      JObj([category |-> JStr("projector"), use_case |-> JStr("home cinema")]),
      JObj([category |-> JStr("dishwasher")]),
      JObj([category |-> JStr("dryer"), extra |-> JNum(1)]),
      JObj([category |-> JStr("laptop"), keywords |-> StrArr(<<"hisense">>)]),
      JObj([category |-> JStr(" tv")]),
      JObj([category |-> JStr("")]),
      JObj([category |-> JNull, use_case |-> JNull, keywords |-> StrArr(<<"inverter">>)]),
      JObj(<<>>) }

\* JSON values that are not an object, or have a field of the wrong type
BadIntentDocs ==
    { JArr(<<>>), JNull, JNum(7), JStr("tv"),
      JObj([category |-> JNum(5)]),
      JObj([category |-> JStr("tv"), keywords |-> JNull]),
      JObj([category |-> JStr("tv"), family_size |-> JStr("many")]),
      JObj([must_have_features |-> JArr(<<JNum(1)>>)]) }

\* text around a JSON document
Wrappers ==
    { [pre |-> "~~~json\n", post |-> "\n~~~"],
      [pre |-> "~~~\n", post |-> "\n~~~\nHope this helps"],
      [pre |-> " \n", post |-> "\n"],
      [pre |-> "~~~json ", post |-> ""],
      [pre |-> "Here is the JSON: ~~~json\n", post |-> "\n~~~"],
      [pre |-> "", post |-> " Hope this helps"],
      [pre |-> "~~~json~~~", post |-> ""] }

\* replies without any JSON document
NonJsonTexts == {"", "Sorry, I cannot help with that.", "~~~json\n~~~", "~~~"}

FailedReplies ==
    {ServiceError, Reply(NoContent)} \cup {Reply(Text(s, NoDoc, "")) : s \in NonJsonTexts}

Wrapped(docs) == {Reply(Text(w.pre, d, w.post)) : w \in Wrappers, d \in docs}
Plain(docs) == {Reply(Text("", d, "")) : d \in docs}

ParseReplies ==
    FailedReplies \cup Plain(IntentDocs \cup BadIntentDocs)
    \cup Wrapped({JObj([category |-> JStr("tv"), use_case |-> JStr("gaming")])})

\* the longest recommendation list the explanation service returns
MaxRecs == 4

UnknownId == "no-such-product-999"

\* the id of the best candidate (an unknown id when there is no candidate)
FirstId(cands) == IF Len(cands) > 0 THEN cands[1].id ELSE UnknownId

\* ids the explanation service may name: the first and the last candidate,
\* the last catalog product, an id that is not in the catalog
IdChoices(cands, products) ==
    {cands[i].id : i \in {1, Len(cands)} \cap DOMAIN cands}
    \cup {products[i].id : i \in {Len(products)} \cap DOMAIN products}
    \cup {UnknownId}

Entry(id) ==
    JObj([product_id |-> JStr(id), score |-> JNum(85), reasoning |-> JStr("Great match")])

ScoreChoices == {JNull, JNum(0 - 5), JNum(0), JNum(100), JNum(150), JStr("90"), JStr("high")}
ReasoningChoices == {JNull, JStr("Great match")}

\* entries for product id with every combination of score and reasoning,
\* each of them present or absent
EntryVariants(id) ==
    {JObj([product_id |-> JStr(id)])}
    \cup {JObj([product_id |-> JStr(id), score |-> sc]) : sc \in ScoreChoices}
    \cup {JObj([product_id |-> JStr(id), reasoning |-> r]) : r \in ReasoningChoices}
    \cup {JObj([product_id |-> JStr(id), score |-> sc, reasoning |-> r]) :
             sc \in ScoreChoices, r \in ReasoningChoices}

SeqsOver(S, lo, hi) == UNION {[1..n -> S] : n \in lo..hi}

RecLists(cands, products) ==
    SeqsOver({Entry(id) : id \in IdChoices(cands, products)}, 0, 2)
    \cup SeqsOver({Entry(FirstId(cands)), Entry(UnknownId)}, 3, MaxRecs)
    \cup {<<e>> : e \in EntryVariants(FirstId(cands))}
    \cup { <<JObj([product_id |-> JStr(UnknownId), score |-> JNum(150)]), Entry(FirstId(cands))>>,
           <<JStr(FirstId(cands))>>,
           <<JObj([score |-> JNum(85), reasoning |-> JStr("Great match")])>>,
           <<JObj([product_id |-> JNum(3)])>> }

ExplainDocs(cands, products) ==
    {JObj([message |-> JStr("Top picks for you"), recommendations |-> JArr(l)]) :
        l \in RecLists(cands, products)}
    \cup { JObj([recommendations |-> JArr(<<Entry(FirstId(cands))>>)]),
           JObj([message |-> JStr("Top picks for you")]),
           JObj([message |-> JNull, recommendations |-> JArr(<<Entry(FirstId(cands))>>)]),
           JObj([message |-> JStr("Top picks for you"), recommendations |-> JNull]),
           JObj([message |-> JStr("Top picks for you"), recommendations |-> JStr("")]),
           JArr(<<Entry(FirstId(cands))>>), JNull, JNum(7) }

ExplainReplies(cands, products) ==
    FailedReplies \cup Plain(ExplainDocs(cands, products))
    \cup Wrapped({JObj([message |-> JStr("Top picks for you"),
                        recommendations |-> JArr(<<Entry(FirstId(cands))>>)])})

CategoryArgs ==
    {None, Some(""), Some("tv"), Some("TV"), Some("Washing_Machine"), Some("dishwasher"),
     Some("laptop"), Some(" tv"), Some("televisions")}
BrandArgs == {None, Some(""), Some("hisense"), Some("Samsung")}

\* texts searched for
SearchArgs == {"", "dolby", "HISENSE", "Inverter", "kg", "no such thing"}

\* ids asked for: the first and the last product of the catalog, an id that
\* is not in it
ProductIdArgs(catalog) ==
    {catalog[i].id : i \in {1, Len(catalog)} \cap DOMAIN catalog} \cup {UnknownId}

\* ------------------------------------------------------------------------
\* State
\* ------------------------------------------------------------------------

VARIABLES
    products,           \* ProductDatabase.products
    pc,                 \* where the request being served stands
    query,              \* the query of the request
    parse_reply,        \* what the parsing call produced
    parse_result,       \* call result of parse_query
    filtered_products,  \* get_recommendations: filtered_products
    scored_products,    \* get_recommendations: scored_products, after the sort
    candidates,         \* get_recommendations: products_for_ai
    explain_calls,      \* requests sent to the explanation service in this call
    explain_reply,      \* what the explanation call produced
    ai_result,          \* call result of generate_recommendations
    result,             \* call result of the handler
    listing,            \* arguments and result of list_products
    singleton,          \* the globals _db, _ai_service, _engine: 0 is None
    built,              \* per accessor, the instances constructed so far
    received,           \* per accessor, the instances handed to callers
    stack,              \* per thread, the accessor calls in progress
    calls               \* accessor calls started from outside, in total

vars == <<products, pc, query, parse_reply, parse_result, filtered_products,
          scored_products, candidates, explain_calls, explain_reply, ai_result,
          result, listing, singleton, built, received, stack, calls>>

requestVars == <<products, pc, query, parse_reply, parse_result, filtered_products,
                 scored_products, candidates, explain_calls, explain_reply, ai_result,
                 result, listing>>
startupVars == <<singleton, built, received, stack, calls>>

\* the three accessors: get_database, get_ai_service, get_recommendation_engine
Accessors == {"get_database", "get_ai_service", "get_recommendation_engine"}

\* threads that may call an accessor at the same time
MaxThreads == 2
\* accessor calls made from outside, in total
MaxCalls == 3
Threads == 1..MaxThreads

Unset == [kind |-> "unset"]

NoRequest ==
    /\ query = ""
    /\ parse_reply = Unset
    /\ parse_result = Unset
    /\ filtered_products = <<>>
    /\ scored_products = <<>>
    /\ candidates = <<>>
    /\ explain_calls = 0
    /\ explain_reply = Unset
    /\ ai_result = Unset
    /\ result = Unset
    /\ listing = Unset

\* the engine exists and the catalog is loaded
Init ==
    /\ products \in {LoadProducts(n) : n \in {0, MaxProducts \div 2, MaxProducts}}
    /\ pc = "idle"
    /\ NoRequest
    /\ singleton = [a \in Accessors |-> 1]
    /\ built = [a \in Accessors |-> 1]
    /\ received = [a \in Accessors |-> {1}]
    /\ stack = [t \in Threads |-> <<>>]
    /\ calls = 0

\* POST /api/recommend arrives; get_recommendations sends the parsing request
Receive(q) ==
    /\ pc = "idle"
    /\ pc' = "parsing"
    /\ query' = q
    /\ UNCHANGED <<products, parse_reply, parse_result, filtered_products, scored_products,
                   candidates, explain_calls, explain_reply, ai_result, result, listing>>
    /\ UNCHANGED startupVars

\* parse_query returns; steps 2 to 4 run up to the explanation request.
\* With no candidate generate_recommendations returns at once and step 5
\* completes the call.
ParseReturns(reply) ==
    /\ pc = "parsing"
    /\ parse_reply' = reply
    /\ parse_result' = parse_query(reply)
    /\ IF parse_result'.raised
       THEN /\ result' = parse_result'
            /\ pc' = "done"
            /\ UNCHANGED <<products, filtered_products, scored_products, candidates,
                           explain_calls, ai_result>>
       ELSE /\ filtered_products' = _filter_products(products, parse_result'.value)
            /\ scored_products' =
                  SortByScoreDesc(_score_products(filtered_products', parse_result'.value, query))
            /\ candidates' = products_for_ai(scored_products')
            /\ products' = CatalogAfterSort(products, filtered_products', scored_products')
            /\ IF ExplainCallMade(candidates')
               THEN /\ explain_calls' = explain_calls + 1
                    /\ pc' = "explaining"
                    /\ UNCHANGED <<ai_result, result>>
               ELSE /\ explain_calls' = explain_calls
                    /\ ai_result' = generate_recommendations(candidates', Unset)
                    /\ result' = FinishRequest(products, query, parse_result'.value, ai_result')
                    /\ pc' = "done"
    /\ UNCHANGED <<query, explain_reply, listing>>
    /\ UNCHANGED startupVars

\* the explanation call ends; generate_recommendations returns or raises and
\* step 5 builds the response
ExplainReturns(reply) ==
    /\ pc = "explaining"
    /\ explain_reply' = reply
    /\ ai_result' = generate_recommendations(candidates, reply)
    /\ result' = FinishRequest(products, query, parse_result.value, ai_result')
    /\ pc' = "done"
    /\ UNCHANGED <<products, query, parse_reply, parse_result, filtered_products,
                   scored_products, candidates, explain_calls, listing>>
    /\ UNCHANGED startupVars

\* GET /api/products
ListProducts(category, brand) ==
    /\ pc = "idle"
    /\ listing' = [category |-> category, brand |-> brand,
                   result |-> list_products(products, category, brand)]
    /\ pc' = "listed"
    /\ UNCHANGED <<products, query, parse_reply, parse_result, filtered_products,
                   scored_products, candidates, explain_calls, explain_reply, ai_result,
                   result>>
    /\ UNCHANGED startupVars

\* a catalog endpoint other than the listing answers: listing holds its
\* name, its argument and what it returned
Answer(op, arg, answer) ==
    /\ pc = "idle"
    /\ listing' = [op |-> op, arg |-> arg, result |-> answer]
    /\ pc' = "answered"
    /\ UNCHANGED <<products, query, parse_reply, parse_result, filtered_products,
                   scored_products, candidates, explain_calls, explain_reply, ai_result,
                   result>>
    /\ UNCHANGED startupVars

\* GET /api/products/{product_id}
GetProduct(product_id) == Answer("get_product", product_id, get_product(products, product_id))

\* GET /api/search
SearchProducts(q) == Answer("search_products", q, search_endpoint(products, q))

\* GET /api/categories
ListCategories == Answer("list_categories", None, list_categories(products))

\* GET /api/brands
ListBrands(category) == Answer("list_brands", category, list_brands(products, category))

\* the HTTP layer sends the response (or the 500 of a raised exception); the
\* locals of the call are gone
Respond ==
    /\ pc \in {"done", "listed", "answered"}
    /\ pc' = "idle"
    /\ query' = ""
    /\ parse_reply' = Unset
    /\ parse_result' = Unset
    /\ filtered_products' = <<>>
    /\ scored_products' = <<>>
    /\ candidates' = <<>>
    /\ explain_calls' = 0
    /\ explain_reply' = Unset
    /\ ai_result' = Unset
    /\ result' = Unset
    /\ listing' = Unset
    /\ UNCHANGED products
    /\ UNCHANGED startupVars

Next ==
    \/ \E q \in Queries : Receive(q)
    \/ \E reply \in ParseReplies : ParseReturns(reply)
    \/ pc = "explaining" /\ \E reply \in ExplainReplies(candidates, products) :
                                ExplainReturns(reply)
    \/ \E category \in CategoryArgs, brand \in BrandArgs : ListProducts(category, brand)
    \/ \E product_id \in ProductIdArgs(products) : GetProduct(product_id)
    \/ \E q \in SearchArgs : SearchProducts(q)
    \/ ListCategories
    \/ \E category \in CategoryArgs : ListBrands(category)
    \/ Respond

Spec == Init /\ [][Next]_vars

\* ------------------------------------------------------------------------
\* The lazily initialised singletons under concurrent first use.
\* A frame of a thread's stack is one accessor call: at "check" it is about to
\* test the global, at "construct" the constructor runs (need lists the
\* accessors the constructor still has to call), at "assign" the new instance
\* obj is about to be stored, at "return" the global is read and returned.
\* ------------------------------------------------------------------------

\* the accessors a constructor calls: RecommendationEngine.__init__ calls
\* get_database() and then get_ai_service()
ConstructorCalls(a) ==
    IF a = "get_recommendation_engine" THEN <<"get_database", "get_ai_service">> ELSE <<>>

Frame(a) == [fn |-> a, at |-> "check", need |-> ConstructorCalls(a), obj |-> 0]

Top(t) == stack[t][Len(stack[t])]
SetTop(t, frame) == [stack EXCEPT ![t] = SubSeq(@, 1, Len(@) - 1) \o <<frame>>]

\* module import: no instance exists
InitStartup ==
    /\ products = <<>>
    /\ pc = "idle"
    /\ NoRequest
    /\ singleton = [a \in Accessors |-> 0]
    /\ built = [a \in Accessors |-> 0]
    /\ received = [a \in Accessors |-> {}]
    /\ stack = [t \in Threads |-> <<>>]
    /\ calls = 0

\* a thread calls an accessor
Call(t, a) ==
    /\ stack[t] = <<>>
    /\ calls < MaxCalls
    /\ calls' = calls + 1
    /\ stack' = [stack EXCEPT ![t] = <<Frame(a)>>]
    /\ UNCHANGED <<singleton, built, received>>
    /\ UNCHANGED requestVars

\* if _x is None
CheckNone(t) ==
    /\ stack[t] # <<>>
    /\ Top(t).at = "check"
    /\ stack' = SetTop(t, [Top(t) EXCEPT !.at = IF singleton[Top(t).fn] = 0
                                                 THEN "construct" ELSE "return"])
    /\ UNCHANGED <<singleton, built, received, calls>>
    /\ UNCHANGED requestVars

\* the constructor calls the next accessor it needs
ConstructorCall(t) ==
    /\ stack[t] # <<>>
    /\ Top(t).at = "construct"
    /\ Top(t).need # <<>>
    /\ stack' = [stack EXCEPT ![t] =
                    SubSeq(@, 1, Len(@) - 1)
                    \o <<[Top(t) EXCEPT !.need = Tail(@)], Frame(Head(Top(t).need))>>]
    /\ UNCHANGED <<singleton, built, received, calls>>
    /\ UNCHANGED requestVars

\* the constructor completes: a new instance exists
Construct(t) ==
    /\ stack[t] # <<>>
    /\ Top(t).at = "construct"
    /\ Top(t).need = <<>>
    /\ built' = [built EXCEPT ![Top(t).fn] = @ + 1]
    /\ stack' = SetTop(t, [Top(t) EXCEPT !.at = "assign", !.obj = built[Top(t).fn] + 1])
    /\ UNCHANGED <<singleton, received, calls>>
    /\ UNCHANGED requestVars

\* _x = <the new instance>
Assign(t) ==
    /\ stack[t] # <<>>
    /\ Top(t).at = "assign"
    /\ singleton' = [singleton EXCEPT ![Top(t).fn] = Top(t).obj]
    /\ stack' = SetTop(t, [Top(t) EXCEPT !.at = "return"])
    /\ UNCHANGED <<built, received, calls>>
    /\ UNCHANGED requestVars

\* return _x
Return(t) ==
    /\ stack[t] # <<>>
    /\ Top(t).at = "return"
    /\ received' = [received EXCEPT ![Top(t).fn] = @ \cup {singleton[Top(t).fn]}]
    /\ stack' = [stack EXCEPT ![t] = SubSeq(@, 1, Len(@) - 1)]
    /\ UNCHANGED <<singleton, built, calls>>
    /\ UNCHANGED requestVars

NextStartup ==
    \/ \E t \in Threads, a \in Accessors : Call(t, a)
    \/ \E t \in Threads : CheckNone(t)
    \/ \E t \in Threads : ConstructorCall(t)
    \/ \E t \in Threads : Construct(t)
    \/ \E t \in Threads : Assign(t)
    \/ \E t \in Threads : Return(t)

SpecStartup == InitStartup /\ [][NextStartup]_vars

\* ------------------------------------------------------------------------
\* Properties
\* ------------------------------------------------------------------------

\* a get_recommendations call has completed
Served == pc = "done"
\* parse_query has returned in the current call
Parsed == pc \in {"explaining", "done"}

\* the explanation call failed otherwise than by malformed JSON: the client
\* raised, or the message had no content
OtherFailure(reply) ==
    reply.kind = "error" \/ (reply.kind = "reply" /\ reply.content = NoContent)

\* the service answered with text that is not parseable JSON
MalformedJson(reply) ==
    /\ reply.kind = "reply"
    /\ reply.content # NoContent
    /\ ~JsonDecodes(CleanContent(reply.content))

\* j is the fallback shape for candidates cands: a message and the first
\* min(5, n) candidates in order, each with score 70 and a reasoning string
FallbackShape(j, cands) ==
    /\ IsObj(j)
    /\ DOMAIN j.f = {"message", "recommendations"}
    /\ j.f["message"].t = "str"
    /\ j.f["recommendations"].t = "arr"
    /\ Len(j.f["recommendations"].v) = Min(5, Len(cands))
    /\ \A i \in 1..Len(j.f["recommendations"].v) :
          LET rec == j.f["recommendations"].v[i] IN
          /\ IsObj(rec)
          /\ DOMAIN rec.f = {"product_id", "score", "reasoning"}
          /\ rec.f["product_id"] = JStr(cands[i].id)
          /\ rec.f["score"] = JNum(70)
          /\ rec.f["reasoning"].t = "str"

\* C1: when the explanation call fails with an error other than malformed
\* JSON and there are candidates, generate_recommendations returns the
\* fallback shape instead of raising, and get_recommendations returns a
\* response.
C1_ErrorFallbackReturned ==
    (Served /\ explain_reply # Unset /\ OtherFailure(explain_reply) /\ Len(candidates) > 0)
    => /\ ~ai_result.raised
       /\ FallbackShape(ai_result.value, candidates)
       /\ ~result.raised

\* C2: when the explanation service returns text that is not parseable JSON
\* and there are candidates, generate_recommendations returns exactly
\* min(5, candidateCount) entries: the first candidates in the order given,
\* each with score 70.
C2_DecodeFallback ==
    (Served /\ explain_reply # Unset /\ MalformedJson(explain_reply) /\ Len(candidates) > 0)
    => /\ ~ai_result.raised
       /\ FallbackShape(ai_result.value, candidates)

\* more candidates than the fallback keeps, and text with a JSON document in
\* it that still does not decode
C2_Witness ==
    /\ Served
    /\ explain_reply # Unset
    /\ MalformedJson(explain_reply)
    /\ explain_reply.content.doc # NoDoc
    /\ Len(candidates) > 5
    /\ ~ai_result.raised
    /\ Len(ai_result.value.f["recommendations"].v) = 5

\* the outcomes of the parsing call that are failures: a service exception,
\* null content, malformed JSON, JSON that is not an object, an object with
\* a field of the wrong type
ParseFailure(reply) ==
    \/ reply.kind = "error"
    \/ reply.content = NoContent
    \/ ~JsonDecodes(CleanContent(reply.content))
    \/ ~IsObj(JsonLoads(CleanContent(reply.content)))
    \/ ~ParsedQueryValid(JsonLoads(CleanContent(reply.content)))

IsOptional(o) == o = None \/ (DOMAIN o = {"some", "v"} /\ o.some)

IsParsedQuery(q) ==
    /\ DOMAIN q = DOMAIN EmptyParsedQuery
    /\ \A k \in DOMAIN q \ {"must_have_features", "keywords"} : IsOptional(q[k])
    /\ q.family_size.some => q.family_size.v \in Int
    /\ DOMAIN q.must_have_features = 1..Len(q.must_have_features)
    /\ DOMAIN q.keywords = 1..Len(q.keywords)

\* C3: parse_query never raises: for every outcome of the external call it
\* returns a ParsedQuery, and on every failure the ParsedQuery has all
\* optional fields absent and both lists empty.
C3_ParseNeverRaises ==
    Parsed =>
       /\ ~parse_result.raised
       /\ IsParsedQuery(parse_result.value)
       /\ ParseFailure(parse_reply) => parse_result.value = EmptyParsedQuery

\* a JSON object with a field of the wrong type came back and the intent is
\* the empty one
C3_Witness ==
    /\ Parsed
    /\ parse_reply = Reply(Text("", JObj([category |-> JStr("tv"), keywords |-> JNull]), ""))
    /\ parse_result = Returned(EmptyParsedQuery)

\* C4: if filtering by the parsed intent's category yields zero products,
\* get_recommendations returns an empty recommendation list and the fixed
\* "couldn't find any products" message, echoing the query and the parsed
\* intent, and sends no request to the explanation service.
C4_NoMatch ==
    (Served /\ ~parse_result.raised /\ Len(filtered_products) = 0)
    => /\ result = Returned([query |-> query, parsed_query |-> parse_result.value,
                             recommendations |-> <<>>, message |-> NoMatchMessage])
       /\ Contains("couldn't find any products", result.value.message)
       /\ explain_calls = 0
       /\ explain_reply = Unset

\* the catalog has products, none in the intent's category
C4_Witness ==
    /\ Served
    /\ Len(products) > 0
    /\ ~parse_result.raised
    /\ parse_result.value.category = Some("dishwasher")
    /\ Len(filtered_products) = 0
    /\ ~result.raised
    /\ result.value.recommendations = <<>>

\* the generator's recommendation list (empty when absent)
GeneratedEntries ==
    LET recs == DictGet(ai_result.value, "recommendations", JArr(<<>>)) IN
    IF recs.t = "arr" THEN recs.v ELSE <<>>

\* the entry names a product of the catalog
Resolves(rec) ==
    /\ rec.f["product_id"].t = "str"
    /\ \E i \in 1..Len(products) : products[i].id = rec.f["product_id"].v

\* C5: a returned response holds the entries among the generator's first 3
\* whose product_id resolves, in the generator's order, the others being
\* omitted: at most 3 recommendations, each for a catalog product.
C5_FirstThreeResolved ==
    (Served /\ ~result.raised)
    => LET kept == SelectSeq(Take(GeneratedEntries, 3), Resolves)
           recs == result.value.recommendations
       IN /\ Len(recs) <= 3
          /\ Len(recs) = Len(kept)
          /\ \A i \in 1..Len(recs) :
                /\ recs[i].product.id = kept[i].f["product_id"].v
                /\ \E k \in 1..Len(products) : products[k] = recs[i].product

\* more than 3 entries, an id among the first 3 that does not resolve, a
\* fourth that does, and a response with the resolved ones
C5_Witness ==
    /\ Served
    /\ ~result.raised
    /\ Len(GeneratedEntries) > 3
    /\ \E i \in 1..3 : ~Resolves(GeneratedEntries[i])
    /\ Resolves(GeneratedEntries[4])
    /\ Len(result.value.recommendations) = 2

\* the generator's result is well formed and only its scores vary: numbers
\* of any size, or no score at all
OnlyScoresVary(j) ==
    /\ IsObj(j)
    /\ DictGet(j, "message", JStr("")).t = "str"
    /\ DictGet(j, "recommendations", JArr(<<>>)).t = "arr"
    /\ \A i \in 1..Len(DictGet(j, "recommendations", JArr(<<>>)).v) :
          LET rec == DictGet(j, "recommendations", JArr(<<>>)).v[i] IN
          /\ IsObj(rec)
          /\ HasKey(rec, "product_id")
          /\ rec.f["product_id"].t = "str"
          /\ DictGet(rec, "reasoning", JStr("")).t = "str"
          /\ DictGet(rec, "score", JNum(70)).t = "num"

\* C6: whatever score the generator emits for an entry (below 0, above 100,
\* absent), get_recommendations returns normally and every recommendation
\* carries a score in [0,100], 70 when the entry has no score.
C6_ScoresInRange ==
    (Served /\ ~ai_result.raised /\ OnlyScoresVary(ai_result.value))
    => /\ ~result.raised
       /\ \A i \in 1..Len(result.value.recommendations) :
             /\ result.value.recommendations[i].score >= 0
             /\ result.value.recommendations[i].score <= 100

\* C7: every score _score_products produces is an integer in [50,100].
C7_ScoreRange ==
    \A i \in 1..Len(scored_products) : scored_products[i].score \in 50..100

\* a product at the cap, one at the base and one in between
C7_Witness ==
    /\ Parsed
    /\ \E i \in 1..Len(scored_products) : scored_products[i].score = 100
    /\ \E i \in 1..Len(scored_products) : scored_products[i].score \in 51..99

\* the category is given and is not one of the eight enumerated values,
\* compared case-insensitively
Unrecognized(category) == category.some /\ Lower(category.v) \notin ProductCategory

\* C8: filtering by a category string that is not one of the eight
\* enumerated categories returns the same products, in the same order, as
\* filtering with no category, for the listing's filter_products and for the
\* orchestrator's _filter_products.
C8_UnknownCategoryNoFilter ==
    /\ (pc = "listed" /\ Unrecognized(listing.category))
       => listing.result = list_products(products, None, listing.brand)
    /\ (Parsed /\ ~parse_result.raised /\ Unrecognized(parse_result.value.category))
       => filtered_products = products

\* an unknown category in the intent and the whole catalog as candidates
C8_Witness ==
    /\ Parsed
    /\ ~parse_result.raised
    /\ parse_result.value.category = Some("laptop")
    /\ Len(products) > 0
    /\ filtered_products = products

\* position of a scored product in the catalog
CatalogIndex(p) == CHOOSE k \in 1..Len(products) : products[k].id = p.product.id

\* C9: after scoring, candidates are ordered by score descending and
\* candidates of equal score keep their relative catalog order.
C9_SortedStable ==
    \A i, j \in 1..Len(scored_products) :
       i < j => /\ scored_products[i].score >= scored_products[j].score
                /\ scored_products[i].score = scored_products[j].score
                   => CatalogIndex(scored_products[i]) < CatalogIndex(scored_products[j])

\* the sort moved a later product to the front and left a tie in place
C9_Witness ==
    /\ Parsed
    /\ \E i, j \in 1..Len(scored_products) :
          /\ i < j
          /\ scored_products[i].score > scored_products[j].score
          /\ CatalogIndex(scored_products[i]) > CatalogIndex(scored_products[j])
    /\ \E i, j \in 1..Len(scored_products) :
          i < j /\ scored_products[i].score = scored_products[j].score

\* C10: for each lazy singleton, concurrent first callers construct exactly
\* one instance and every caller, then and later, receives that instance.
C10_SingleInstance ==
    \A a \in Accessors : built[a] <= 1 /\ Cardinality(received[a]) <= 1

\* C11: after the initial load no get_recommendations, filter_products,
\* search_products, get_product_by_id, get_categories or get_brands call, in
\* any order, changes the catalog's product list, neither its contents nor
\* its order.
C11_CatalogReadOnly == [][products' = products]_vars

\* a request whose filtered list is the whole catalog has been served and its
\* sort put the scored list in another order than the catalog's, which is
\* still the list the load built
C11_Witness ==
    /\ Served
    /\ Len(products) > 1
    /\ filtered_products = products
    /\ [i \in 1..Len(scored_products) |-> scored_products[i].product] # products
    /\ products = LoadProducts(Len(products))

\* steps 2 to 4 have just run: the scored list is built and sorted and the
\* explanation request is out (the list is not touched afterwards)
Scored == pc = "explaining"

\* the intent scored has every field absent and both lists empty
EmptyIntentScored == Scored /\ parse_result = Returned(EmptyParsedQuery)

\* the spec's "(always)" row: +5 for an AC product with "inverter" in its
\* features text or its specs text
InverterRow(p) ==
    Bonus(/\ p.category = "ac"
          /\ \/ Contains("inverter", Lower(JoinWith(" ", p.features)))
             \/ Contains("inverter", Lower(JsonDumps(p.specs))), 5)

\* the query token overlap bonus of each scored product
Overlaps == [i \in 1..Len(scored_products) |-> QueryTermBonus(scored_products[i].product, query)]
\* the inverter row of each scored product
InverterRows == [i \in 1..Len(scored_products) |-> InverterRow(scored_products[i].product)]

\* C12 as stated: with an intent whose fields are all absent, every use-case
\* bonus is zero for every product, each score is min(100, 50 + the query
\* token overlap bonus), and products of equal overlap have equal scores.
C12_EmptyIntentNoUseCaseBonus ==
    EmptyIntentScored =>
       LET overlap == Overlaps IN
       /\ \A i \in 1..Len(scored_products) :
             /\ _use_case_score(scored_products[i].product, EmptyParsedQuery) = 0
             /\ scored_products[i].score = Min(100, 50 + overlap[i])
       /\ \A i, j \in 1..Len(scored_products) :
             overlap[i] = overlap[j] => scored_products[i].score = scored_products[j].score

\* C12 amended: with an intent whose fields are all absent, the only use-case
\* bonus is the untriggered inverter row of an AC product (+5), every other
\* one is zero; each score is min(100, 50 + the query token overlap bonus +
\* the inverter row), and products of equal overlap and equal inverter row
\* have equal scores.
C12_EmptyIntentOnlyInverter ==
    EmptyIntentScored =>
       LET overlap == Overlaps
           inverter == InverterRows
       IN /\ \A i \in 1..Len(scored_products) :
                /\ _use_case_score(scored_products[i].product, EmptyParsedQuery) = inverter[i]
                /\ scored_products[i].score = Min(100, 50 + overlap[i] + inverter[i])
          /\ \A i, j \in 1..Len(scored_products) :
                (overlap[i] = overlap[j] /\ inverter[i] = inverter[j])
                => scored_products[i].score = scored_products[j].score

\* an empty intent scored a catalog with an AC product that has the inverter
\* row, an AC product that has not, a TV left at the base score, and a
\* product with query token overlap
C12_Witness ==
    /\ EmptyIntentScored
    /\ \E i, j, k \in 1..Len(scored_products) :
          /\ scored_products[i].product.category = "ac"
          /\ InverterRow(scored_products[i].product) = 5
          /\ scored_products[j].product.category = "ac"
          /\ InverterRow(scored_products[j].product) = 0
          /\ scored_products[k].product.category = "tv"
          /\ scored_products[k].score = 50
    /\ \E i \in 1..Len(scored_products) :
          QueryTermBonus(scored_products[i].product, query) > 0

\* the capacity in the unit's measure that the pattern finds in the name of
\* scored product i, and its distance from the ideal of the intent's family
CapacityDistance(i, unit, perPerson) ==
    Abs(ParseInt(SearchCapacity(scored_products[i].product.name, unit).v)
        - parse_result.value.family_size.v * perPerson)

\* scored product i has the category, the intent has a family size and the
\* name has a capacity in the unit
FamilyRowApplies(i, category, unit) ==
    /\ scored_products[i].product.category = category
    /\ TruthyInt(parse_result.value.family_size)
    /\ SearchCapacity(scored_products[i].product.name, unit).some

\* C13: the family-size capacity bonuses use strict thresholds: for a
\* refrigerator a distance of exactly 100 liters gives +10 and of exactly 200
\* gives 0; for a washing machine a distance of exactly 2 kg gives +10 and of
\* exactly 4 gives 0.
C13_StrictThresholds ==
    Scored =>
       \A i \in 1..Len(scored_products) :
          LET p == scored_products[i].product
              parsed == parse_result.value
          IN /\ FamilyRowApplies(i, "refrigerator", "l") =>
                   /\ CapacityDistance(i, "l", 100) = 100 => RefrigeratorBonus(p, parsed) = 10
                   /\ CapacityDistance(i, "l", 100) = 200 => RefrigeratorBonus(p, parsed) = 0
             /\ FamilyRowApplies(i, "washing_machine", "kg") =>
                   /\ CapacityDistance(i, "kg", 2) = 2
                         => WashingMachineBonus(p, parsed, "", "") = 10
                   /\ CapacityDistance(i, "kg", 2) = 4
                         => WashingMachineBonus(p, parsed, "", "") = 0

\* one row of the spec's use-case table
Row(trigger, marker, points) == Bonus(trigger /\ marker, points)

\* one of the words occurs in the text
AnyOf(words, text) == \E w \in words : Contains(w, text)

\* the spec's use-case table, the family-size rows aside: the sum of the rows
\* of the product's category, each taken on its own trigger and marker
TableBonus(p, parsed) ==
    LET use_case == IF TruthyStr(parsed.use_case) THEN Lower(parsed.use_case.v) ELSE ""
        room_size == IF TruthyStr(parsed.room_size) THEN Lower(parsed.room_size.v) ELSE ""
        features == Lower(JoinWith(" ", p.features))
        specs == Lower(JsonDumps(p.specs))
        name == Lower(p.name)
        gaming == AnyOf({"gaming", "game"}, use_case)
        movie == AnyOf({"movie", "cinema"}, use_case)
        sport == Contains("sport", use_case)
    IN CASE p.category = "tv" ->
              Row(gaming, AnyOf({"120hz", "144hz", "165hz"}, specs), 15)
              + Row(gaming, AnyOf({"game mode", "game bar"}, features), 10)
              + Row(gaming, AnyOf({"vrr", "allm"}, specs), 5)
              + Row(movie, Contains("dolby vision", specs) \/ Contains("dolby atmos", features), 15)
              + Row(movie, Contains("hdr", specs), 10)
              + Row(movie, AnyOf({"oled", "miniled", "mini-led"}, specs), 10)
              + Row(sport, AnyOf({"sports mode", "ai sports"}, features), 15)
              + Row(sport, Contains("memc", specs) \/ Contains("motion", features), 10)
         [] p.category = "washing_machine" ->
              Row(AnyOf({"smart", "connected"}, use_case), AnyOf({"connect", "app"}, features), 10)
         [] p.category = "ac" ->
              Row(AnyOf({"large", "living"}, room_size), AnyOf({"2 ton", "24000"}, specs), 15)
              + Row(AnyOf({"small", "bedroom"}, room_size), AnyOf({"1 ton", "1.5 ton"}, specs), 15)
              + Row(TRUE, Contains("inverter", features) \/ Contains("inverter", specs), 5)
         [] p.category = "soundbar" ->
              Row(movie, \/ AnyOf({"dolby atmos", "atmos"}, specs)
                         \/ AnyOf({"dolby atmos", "atmos"}, features), 15)
              + Row(AnyOf({"bass", "music"}, use_case),
                    Contains("subwoofer", name) \/ Contains("subwoofer", specs), 10)
         [] p.category = "projector" ->
              Row(movie, Contains("laser", name) \/ Contains("4k", specs), 15)
              + Row(movie, Contains("dolby", specs), 10)
         [] OTHER -> 0

\* C14: for every product and intent the use-case bonus, family-size rows
\* aside, is the sum of the bonuses of all table rows of the product's
\* category whose trigger and marker both hold, each row on its own: the two
\* AC room rows each apply on their own trigger and marker, and the soundbar
\* movie row applies when "dolby atmos" or "atmos" is in specs or features.
C14_RowsIndependent ==
    Scored =>
       \A i \in 1..Len(scored_products) :
          _use_case_score(scored_products[i].product,
                          [parse_result.value EXCEPT !.family_size = None])
             = TableBonus(scored_products[i].product, parse_result.value)

\* the entries of keywords + must_have_features, one per occurrence
KeywordEntries == parse_result.value.keywords \o parse_result.value.must_have_features

\* entry k is a case-insensitive substring of the name of p
InName(k, p) == Contains(Lower(KeywordEntries[k]), Lower(p.name))

\* entry k is a case-insensitive substring of the features text or of the
\* serialized specs text of p
InFeaturesOrSpecs(k, p) ==
    \/ Contains(Lower(KeywordEntries[k]), Lower(JoinWith(" ", p.features)))
    \/ Contains(Lower(KeywordEntries[k]), Lower(JsonDumps(p.specs)))

\* what the entries earn product p: 10 per entry in the name, 5 per entry in
\* the features or specs text
KeywordGain(p) ==
    10 * Cardinality({k \in 1..Len(KeywordEntries) : InName(k, p)})
    + 5 * Cardinality({k \in 1..Len(KeywordEntries) : InFeaturesOrSpecs(k, p)})

\* C15: each entry of keywords + must_have_features, counted once per
\* occurrence, adds 10 to the score if it is a case-insensitive substring of
\* the product name and, independently, 5 (once) if it is one of the features
\* text or of the serialized specs text: the score is the capped sum of the
\* score without any entry and these gains.
C15_KeywordGains ==
    Scored =>
       \A i \in 1..Len(scored_products) :
          scored_products[i].score
             = Min(100, RawScore(scored_products[i].product,
                                 [parse_result.value EXCEPT !.keywords = <<>>,
                                                            !.must_have_features = <<>>],
                                 query)
                        + KeywordGain(scored_products[i].product))

\* below the cap: a product for which an entry occurs twice (in another
\* case) and earns 10 and 5 each time, and a product with an entry that is in
\* the features text and in the specs text and earns 5
C15_Witness ==
    /\ Scored
    /\ \E i \in 1..Len(scored_products) :
          LET p == scored_products[i].product IN
          /\ scored_products[i].score < 100
          /\ \E k, l \in 1..Len(KeywordEntries) :
                /\ k < l
                /\ Lower(KeywordEntries[k]) = Lower(KeywordEntries[l])
                /\ InName(k, p) /\ InFeaturesOrSpecs(k, p)
          /\ KeywordGain(p) >= 30
    /\ \E i \in 1..Len(scored_products) :
          LET p == scored_products[i].product IN
          /\ scored_products[i].score < 100
          /\ KeywordGain(p) = 5
          /\ \E k \in 1..Len(KeywordEntries) :
                /\ Contains(Lower(KeywordEntries[k]), Lower(JoinWith(" ", p.features)))
                /\ Contains(Lower(KeywordEntries[k]), Lower(JsonDumps(p.specs)))

\* the score the engine gave the product with this id
ScoreOf(id) ==
    scored_products[CHOOSE k \in 1..Len(scored_products) :
                       scored_products[k].product.id = id].score

\* the ids handed to the explanation generator
HandedIds == {candidates[i].id : i \in 1..Len(candidates)}

\* C16: the explanation generator receives at most 10 candidates, in
\* descending score order, projected from the highest-scored filtered
\* products: every filtered product not handed over scores no more than any
\* product handed over.
C16_TopTenHanded ==
    Scored =>
       /\ Len(candidates) = Min(10, Len(filtered_products))
       /\ explain_calls = 1
       /\ \A i \in 1..Len(candidates) :
             /\ \E k \in 1..Len(filtered_products) : candidates[i].id = filtered_products[k].id
             /\ \A j \in 1..Len(candidates) :
                   i < j => /\ ScoreOf(candidates[i].id) >= ScoreOf(candidates[j].id)
                            /\ candidates[i].id # candidates[j].id
       /\ \A k \in 1..Len(filtered_products) :
             filtered_products[k].id \notin HandedIds
             => \A i \in 1..Len(candidates) :
                   ScoreOf(filtered_products[k].id) <= ScoreOf(candidates[i].id)

\* more than 10 filtered products with different scores: one is left out
C16_Witness ==
    /\ Scored
    /\ Len(filtered_products) > 10
    /\ Len(candidates) = 10
    /\ ScoreOf(candidates[1].id) > ScoreOf(candidates[10].id)
    /\ \E k \in 1..Len(filtered_products) : filtered_products[k].id \notin HandedIds

\* the intent's category is one of the enumerated ones
IntentCategoryRecognized ==
    /\ TruthyStr(parse_result.value.category)
    /\ IsCategory(Lower(parse_result.value.category.v))

\* entry rec of the generator names the product with this id
Names(rec, id) == IsObj(rec) /\ HasKey(rec, "product_id") /\ rec.f["product_id"] = JStr(id)

\* C17 as stated: every product in the recommendations of a response is one
\* of the candidates handed to the explanation generator, so it has the
\* intent's category when that category is recognized, and no product
\* appears twice, whatever ids the generator returns.
C17_OnlyCandidatesOnce ==
    (Served /\ ~result.raised) =>
       LET recs == result.value.recommendations IN
       /\ \A i \in 1..Len(recs) :
             /\ recs[i].product.id \in HandedIds
             /\ IntentCategoryRecognized
                => recs[i].product.category = Lower(parse_result.value.category.v)
       /\ \A i, j \in 1..Len(recs) : i # j => recs[i].product.id # recs[j].product.id

\* C17 amended: every product in the recommendations of a response is the
\* catalog product whose id one of the generator's first 3 entries names,
\* candidate or not; when the id is a candidate's, the product has the
\* intent's category if that category is recognized; a product appears once
\* for every one of those entries that names it.
C17_NamedCatalogProducts ==
    (Served /\ ~result.raised) =>
       LET recs == result.value.recommendations
           entries == Take(GeneratedEntries, 3)
       IN /\ \A i \in 1..Len(recs) :
                /\ \E k \in 1..Len(products) : products[k] = recs[i].product
                /\ \E e \in 1..Len(entries) : Names(entries[e], recs[i].product.id)
                /\ (recs[i].product.id \in HandedIds /\ IntentCategoryRecognized)
                   => recs[i].product.category = Lower(parse_result.value.category.v)
          /\ \A k \in 1..Len(products) :
                Cardinality({i \in 1..Len(recs) : recs[i].product.id = products[k].id})
                   = Cardinality({e \in 1..Len(entries) : Names(entries[e], products[k].id)})

\* the intent's category is recognized and the generator named a candidate
\* and then a catalog product of another category that was not handed over:
\* both are in the response
C17_Witness ==
    /\ Served
    /\ ~result.raised
    /\ IntentCategoryRecognized
    /\ Len(result.value.recommendations) = 2
    /\ result.value.recommendations[1].product.id \in HandedIds
    /\ result.value.recommendations[2].product.id \notin HandedIds
    /\ result.value.recommendations[2].product.category # Lower(parse_result.value.category.v)

\* the summary message of the decode fallback
FallbackMessage == "Here are some products that match your requirements:"

\* C18: when the explanation service returns malformed JSON and n >= 1
\* products pass the category filter, get_recommendations returns exactly
\* min(3, n) recommendations: the min(3, n) highest-scored filtered products
\* in descending score order, ties in catalog order, each with score 70,
\* together with the fallback summary message.
C18_FallbackTopThree ==
    (Served /\ explain_reply # Unset /\ MalformedJson(explain_reply)
            /\ Len(filtered_products) >= 1)
    => /\ ~result.raised
       /\ result.value.query = query
       /\ result.value.message = FallbackMessage
       /\ LET recs == result.value.recommendations
              chosen == {recs[i].product.id : i \in 1..Len(recs)}
          IN /\ Len(recs) = Min(3, Len(filtered_products))
             /\ \A i \in 1..Len(recs) :
                   /\ recs[i].score = 70
                   /\ \E k \in 1..Len(filtered_products) : filtered_products[k] = recs[i].product
                   /\ \A j \in 1..Len(recs) :
                         i < j =>
                            /\ ScoreOf(recs[i].product.id) >= ScoreOf(recs[j].product.id)
                            /\ ScoreOf(recs[i].product.id) = ScoreOf(recs[j].product.id)
                               => CatalogIndex(recs[i]) < CatalogIndex(recs[j])
             /\ \A k \in 1..Len(filtered_products) :
                   filtered_products[k].id \notin chosen
                   => \A i \in 1..Len(recs) :
                         /\ ScoreOf(filtered_products[k].id) <= ScoreOf(recs[i].product.id)
                         /\ ScoreOf(filtered_products[k].id) = ScoreOf(recs[i].product.id)
                            => CatalogIndex(recs[i]) < CatalogIndex([product |-> filtered_products[k]])

\* malformed JSON with more than 3 filtered products: the best three come
\* back, in an order the sort produced, with a lower-scored product and a
\* product tied with the third left out
C18_Witness ==
    /\ Served
    /\ explain_reply # Unset
    /\ MalformedJson(explain_reply)
    /\ Len(filtered_products) > 3
    /\ ~result.raised
    /\ Len(result.value.recommendations) = 3
    /\ CatalogIndex(result.value.recommendations[1]) > CatalogIndex(result.value.recommendations[2])
    /\ \E k \in 1..Len(filtered_products) :
          ScoreOf(filtered_products[k].id) < ScoreOf(result.value.recommendations[3].product.id)
    /\ \E k \in 1..Len(filtered_products) :
          /\ filtered_products[k].id \notin
                {result.value.recommendations[i].product.id : i \in 1..3}
          /\ ScoreOf(filtered_products[k].id) = ScoreOf(result.value.recommendations[3].product.id)

====
